---- MODULE Spec2Model ----
(***************************************************************************)
(* Model of the cosmiq dump analyser (parse_dump) and log parser           *)
(* (parse_logs).  parse_dump demultiplexes the frames of a text capture    *)
(* into a header and a body hex accumulator, decodes the body, cuts it     *)
(* into blocks at 6-byte all-0xFF windows and writes one file per block;   *)
(* parse_logs reads the block files back and scans each for marker-        *)
(* prefixed 4-byte records.  Text is modelled as TLA+ strings, bytes as    *)
(* integers 0..255, byte strings as sequences of bytes.                    *)
(***************************************************************************)
EXTENDS Integers, Sequences, FiniteSets, TLC

VARIABLES
    pc,                  \* position in parse_dump / parse_logs
    lines,               \* parse_dump: f.readlines()
    li,                  \* parse_dump: index (1-based) of the next line of `for line in lines`
    header_hex,          \* parse_dump: header accumulator
    body_hex,            \* parse_dump: body accumulator
    body_bytes,          \* parse_dump: decoded body
    wi,                  \* parse_dump: `i` of `for i in range(0, len(body_bytes), 6)`
    unique_data_chunks,  \* parse_dump: emitted blocks
    current_chunk,       \* parse_dump: open block
    in_data,             \* parse_dump: segmenter flag
    idx,                 \* parse_dump: `idx` of the output loop
    files,               \* the data directory: file name -> content
    out,                 \* what has been printed, in order
    pass,                \* 1: segmenting a decoded body; 2: segmenting a block fed back
    bin_files,           \* parse_logs: sorted(bin_files)
    fi,                  \* parse_logs: index (1-based) of the next file of the for loop
    data,                \* parse_logs: content of the file being analysed
    i,                   \* parse_logs: scan offset
    samples,             \* parse_logs: samples of the file being analysed
    run,                 \* the number of parse_dump runs started over the data directory
    latest               \* the blocks of the most recent parse_dump run that returned normally

vars == <<pc, lines, li, header_hex, body_hex, body_bytes, wi, unique_data_chunks,
          current_chunk, in_data, idx, files, out, pass, bin_files, fi, data, i, samples,
          run, latest>>

dumpVars == <<lines, li, header_hex, body_hex, body_bytes, wi, unique_data_chunks,
              current_chunk, in_data, idx, pass>>

logVars == <<bin_files, fi, data, i, samples>>

runVars == <<run, latest>>

----------------------------------------------------------------------------
(* Bounds of the model *)

\* longest capture, in lines
MaxLines == 3

\* longest byte sequence given to the segmenter on its own
MaxBody == 13

\* most windows in a body made of whole windows, given to the segmenter on its own
MaxWindows == 4

\* longest block of arbitrary bytes given to the sample scan on its own
MaxData == 6

\* longest block of marker-dense bytes given to the sample scan on its own
MaxDense == 9

\* most parse_dump runs over one data directory
MaxRuns == 3

\* longest capture of one of several runs, in lines
MaxRunLines == 2

\* longest capture of many blocks, in lines
MaxOrderLines == 10

----------------------------------------------------------------------------
(* Program constants *)

\* the size of a window: the slice [i : i + 6]
WINDOW == 6

\* STEP one short of the window size, so that consecutive windows overlap
StepShort == WINDOW - 1

\* the step from a window to the next: range(0, len(body_bytes), 6)
STEP == 6

\* the minimum length of a frame line
MIN_FRAME == 10

\* PAYLOAD_AT put at the minimum frame length
PayloadAtMinFrame == MIN_FRAME

\* the index at which the payload starts
PAYLOAD_AT == 6

\* the hex text of a padding window
FILLER_HEX == "FFFFFFFFFFFF"

\* the sample markers
MARKERS == {<<194, 0>>, <<195, 0>>, <<196, 0>>}

\* the size of a sample record: the loop bound len(data) - 4 and the step i += 4
RECORD == 4

----------------------------------------------------------------------------
(* Python helpers *)

Min(a, b) == IF a < b THEN a ELSE b

\* s[a:b] of a str or bytes, 0-based, clamped to the length as Python does
Slice(s, a, b) == SubSeq(s, a + 1, Min(b, Len(s)))

CharAt(s, k) == SubSeq(s, k, k)

WHITESPACE == {" ", "\t", "\n", "\r"}

RECURSIVE LStrip(_)
LStrip(s) ==
    IF Len(s) > 0 /\ CharAt(s, 1) \in WHITESPACE THEN LStrip(Tail(s)) ELSE s

RECURSIVE RStrip(_)
RStrip(s) ==
    IF Len(s) > 0 /\ CharAt(s, Len(s)) \in WHITESPACE
    THEN RStrip(SubSeq(s, 1, Len(s) - 1))
    ELSE s

\* str.strip()
Strip(s) == RStrip(LStrip(s))

LOWER_DIGITS == "0123456789abcdef"

UPPER_DIGITS == "0123456789ABCDEF"

\* the position (0-based) of character c in string s, or -1
RECURSIVE IndexFrom(_, _, _)
IndexFrom(s, c, k) ==
    IF k > Len(s) THEN -1
    ELSE IF CharAt(s, k) = c THEN k - 1
    ELSE IndexFrom(s, c, k + 1)

IndexOf(s, c) == IndexFrom(s, c, 1)

\* the two lowercase hex digits of each byte value
HexOfByte ==
    [b \in 0..255 |-> CharAt(LOWER_DIGITS, (b \div 16) + 1)
                      \o CharAt(LOWER_DIGITS, (b % 16) + 1)]

\* bytes.hex(): two lowercase digits per byte
RECURSIVE BytesHex(_)
BytesHex(b) ==
    IF b = <<>> THEN "" ELSE HexOfByte[Head(b)] \o BytesHex(Tail(b))

\* the upper-case form of the letters hex text is made of
UpperOf ==
    [c \in {CharAt(LOWER_DIGITS, k) : k \in 11..16} |->
        CharAt(UPPER_DIGITS, IndexOf(LOWER_DIGITS, c) + 1)]

\* str.upper(), on the characters hex text is made of
UpperChar(c) == IF c \in DOMAIN UpperOf THEN UpperOf[c] ELSE c

RECURSIVE Upper(_)
Upper(s) == IF Len(s) = 0 THEN "" ELSE UpperChar(CharAt(s, 1)) \o Upper(Tail(s))

\* the value of each hex digit, of either case
HexValOf ==
    [c \in {CharAt(LOWER_DIGITS, k) : k \in 1..16} \cup {CharAt(UPPER_DIGITS, k) : k \in 1..16} |->
        IF IndexOf(LOWER_DIGITS, c) >= 0 THEN IndexOf(LOWER_DIGITS, c)
        ELSE IndexOf(UPPER_DIGITS, c)]

\* the value of a hex digit, or -1
HexVal(c) == IF c \in DOMAIN HexValOf THEN HexValOf[c] ELSE -1

\* the ASCII characters the text of the model is written in, in code point order
ASCII == "\t\n\r .0123456789ABCDEFGHIJKLMNOPQRSTUVWXYZ_abcdefghijklmnopqrstuvwxyz"

\* the code point order of these characters
Ord == [c \in {CharAt(ASCII, k) : k \in 1..Len(ASCII)} |-> IndexOf(ASCII, c)]

IsAscii(s) == \A k \in 1..Len(s) : CharAt(s, k) \in DOMAIN Ord

AllHex(s) == \A k \in 1..Len(s) : HexVal(CharAt(s, k)) >= 0

\* the byte of each pair of hex digits
HexPairs(s) ==
    [k \in 1..(Len(s) \div 2) |->
        16 * HexVal(CharAt(s, 2 * k - 1)) + HexVal(CharAt(s, 2 * k))]

\* Unhexlify that drops a last odd digit instead of failing
UnhexlifyTruncating(s) ==
    IF ~IsAscii(s) THEN [exc |-> "ValueError", bytes |-> <<>>]
    ELSE IF ~AllHex(s) THEN [exc |-> "binascii.Error", bytes |-> <<>>]
    ELSE [exc |-> "none", bytes |-> HexPairs(SubSeq(s, 1, 2 * (Len(s) \div 2)))]

\* binascii.unhexlify(str): a str that is not ASCII raises ValueError before any
\* decoding; an odd length or a non-hex digit raises binascii.Error; no bytes are
\* returned in either case
Unhexlify(s) ==
    IF ~IsAscii(s) THEN [exc |-> "ValueError", bytes |-> <<>>]
    ELSE IF Len(s) % 2 # 0 \/ ~AllHex(s) THEN [exc |-> "binascii.Error", bytes |-> <<>>]
    ELSE [exc |-> "none", bytes |-> HexPairs(s)]

----------------------------------------------------------------------------
(* parse_dump *)

\* the lines a capture of the model is made of (as readlines() returns them)
CandidateLines ==
    { "42AAAACAFEBABE\n",                    \* header frame
      "44BBBBFFFFFFFFFFFF\n",                \* body frame, one padding window
      "44CCCCC20012340000FFFFFFFFFFFF\n",    \* body frame, a record, zeros and padding
      "44CCCCC3003412\n",                    \* body frame, one 4-byte record
      "4200AABB\n",                          \* 8 characters
      "44AABBFFF\n",                         \* 9 characters
      "44AABB00c4",                          \* 10 characters, lowercase hex, no newline
      "  44DDDDFFFFF \r\n",                  \* body frame, 5 payload characters
      "44DDDDFFFFFFF\n",                     \* body frame, 7 payload characters
      "44EEEEC2GG\n",                        \* body frame, non-hex payload
      "44EEEEC2é0\n",                        \* body frame, non-ASCII payload
      "41AAAA112233\n" }                     \* another command code

\* the sequences over S of length at most n
SeqsUpTo(S, n) == UNION {[1..k -> S] : k \in 0..n}

\* IsFrame skipping a line of exactly 10 characters too
IsFrameStrict(line) == ~(Len(line) <= MIN_FRAME)

\* line 20: a line shorter than 10 characters is skipped
IsFrame(line) == ~(Len(line) < MIN_FRAME)

\* line 24
Cmd(line) == Slice(line, 0, 2)

\* line 27
Payload(line) == SubSeq(line, PAYLOAD_AT + 1, Len(line))

\* lines 18-32: one iteration of `for line in lines`
DemuxLine ==
    /\ pc = "demux"
    /\ li <= Len(lines)
    /\ LET line == Strip(lines[li])
       IN  /\ header_hex' = IF IsFrame(line) /\ Cmd(line) = "42"
                            THEN header_hex \o Payload(line)
                            ELSE header_hex
           /\ body_hex' = IF IsFrame(line) /\ Cmd(line) = "44"
                          THEN body_hex \o Payload(line)
                          ELSE body_hex
    /\ li' = li + 1
    /\ UNCHANGED <<pc, lines, body_bytes, wi, unique_data_chunks, current_chunk,
                   in_data, idx, files, out, pass>>
    /\ UNCHANGED logVars
    /\ UNCHANGED runVars

\* lines 34-35: the loop is over, the header is printed
ReportHeader ==
    /\ pc = "demux"
    /\ li > Len(lines)
    /\ out' = Append(out, <<"HEADER", Len(header_hex) \div 2, header_hex>>)
    /\ pc' = "unhex"
    /\ UNCHANGED <<files>>
    /\ UNCHANGED dumpVars
    /\ UNCHANGED logVars
    /\ UNCHANGED runVars

\* lines 38-44 and 52-54: the body is decoded; binascii.Error is caught, reported
\* and parse_dump returns; any other exception leaves parse_dump
Materialize ==
    /\ pc = "unhex"
    /\ LET r == Unhexlify(body_hex)
       IN  IF r.exc = "binascii.Error"
           THEN /\ out' = Append(out, <<"Error decoding hex data">>)
                /\ pc' = "returned"
                /\ UNCHANGED <<body_bytes, unique_data_chunks, current_chunk, in_data, wi>>
           ELSE IF r.exc # "none"
           THEN /\ out' = Append(out, <<"Traceback", r.exc>>)
                /\ pc' = "raised"
                /\ UNCHANGED <<body_bytes, unique_data_chunks, current_chunk, in_data, wi>>
           ELSE /\ body_bytes' = r.bytes
                /\ out' = Append(out, <<"BODY", Len(r.bytes)>>)
                /\ unique_data_chunks' = <<>>
                /\ current_chunk' = <<>>
                /\ in_data' = FALSE
                /\ wi' = 0
                /\ pc' = "segment"
    /\ UNCHANGED <<lines, li, header_hex, body_hex, idx, files, pass>>
    /\ UNCHANGED logVars
    /\ UNCHANGED runVars

\* IsFiller with a short window compared against the padding cut to its length
IsFillerPrefix(chunk) ==
    Upper(BytesHex(chunk)) = SubSeq(FILLER_HEX, 1, 2 * Len(chunk))

\* IsFiller without the upper-casing of the hex text
IsFillerLowerCase(chunk) == BytesHex(chunk) = FILLER_HEX

\* lines 58 and 64: the window is padding when its upper-case hex text is FFFFFFFFFFFF
IsFiller(chunk) == Upper(BytesHex(chunk)) = FILLER_HEX

\* SegmentWindow without the reset of in_data when a block is closed
SegmentWindowKeepsFlag ==
    /\ pc = "segment"
    /\ wi < Len(body_bytes)
    /\ LET chunk == Slice(body_bytes, wi, wi + WINDOW)
       IN  IF IsFiller(chunk)
           THEN IF in_data
                THEN /\ unique_data_chunks' = Append(unique_data_chunks, current_chunk)
                     /\ current_chunk' = <<>>
                     /\ in_data' = in_data
                ELSE UNCHANGED <<unique_data_chunks, current_chunk, in_data>>
           ELSE /\ in_data' = TRUE
                /\ current_chunk' = current_chunk \o chunk
                /\ UNCHANGED unique_data_chunks
    /\ wi' = wi + STEP
    /\ UNCHANGED <<pc, lines, li, header_hex, body_hex, body_bytes, idx, files, out, pass>>
    /\ UNCHANGED logVars
    /\ UNCHANGED runVars

\* SegmentWindow with the window assigned to the open block instead of appended
SegmentWindowAssigns ==
    /\ pc = "segment"
    /\ wi < Len(body_bytes)
    /\ LET chunk == Slice(body_bytes, wi, wi + WINDOW)
       IN  IF IsFiller(chunk)
           THEN IF in_data
                THEN /\ unique_data_chunks' = Append(unique_data_chunks, current_chunk)
                     /\ current_chunk' = <<>>
                     /\ in_data' = FALSE
                ELSE UNCHANGED <<unique_data_chunks, current_chunk, in_data>>
           ELSE /\ in_data' = TRUE
                /\ current_chunk' = chunk
                /\ UNCHANGED unique_data_chunks
    /\ wi' = wi + STEP
    /\ UNCHANGED <<pc, lines, li, header_hex, body_hex, body_bytes, idx, files, out, pass>>
    /\ UNCHANGED logVars
    /\ UNCHANGED runVars

\* lines 56-71: one iteration of the window loop
SegmentWindow ==
    /\ pc = "segment"
    /\ wi < Len(body_bytes)
    /\ LET chunk == Slice(body_bytes, wi, wi + WINDOW)
       IN  IF IsFiller(chunk)
           THEN IF in_data
                THEN /\ unique_data_chunks' = Append(unique_data_chunks, current_chunk)
                     /\ current_chunk' = <<>>
                     /\ in_data' = FALSE
                ELSE UNCHANGED <<unique_data_chunks, current_chunk, in_data>>
           ELSE /\ in_data' = TRUE
                /\ current_chunk' = current_chunk \o chunk
                /\ UNCHANGED unique_data_chunks
    /\ wi' = wi + STEP
    /\ UNCHANGED <<pc, lines, li, header_hex, body_hex, body_bytes, idx, files, out, pass>>
    /\ UNCHANGED logVars
    /\ UNCHANGED runVars

\* FlushNeeded without the flush at the end of the input
FlushNever(chunk) == FALSE

\* line 73: the open block is flushed when it is not empty
FlushNeeded(chunk) == chunk # <<>>

\* lines 73-77: the loop is over; the open block is flushed and the count printed
Flush ==
    /\ pc = "segment"
    /\ ~(wi < Len(body_bytes))
    /\ unique_data_chunks' = IF FlushNeeded(current_chunk)
                             THEN Append(unique_data_chunks, current_chunk)
                             ELSE unique_data_chunks
    /\ out' = Append(out, <<"Found", Len(unique_data_chunks')>>)
    /\ idx' = 0
    /\ pc' = "persist"
    /\ UNCHANGED <<lines, li, header_hex, body_hex, body_bytes, wi, current_chunk,
                   in_data, files, pass>>
    /\ UNCHANGED logVars
    /\ UNCHANGED runVars

DEC_DIGITS == "0123456789"

\* str(n) of a natural number
RECURSIVE Str(_)
Str(n) ==
    IF n < 10 THEN CharAt(DEC_DIGITS, n + 1)
    ELSE Str(n \div 10) \o CharAt(DEC_DIGITS, (n % 10) + 1)

\* line 88: the file name of block idx (0-based)
BlockFilename(k) == "dive_log_block_" \o Str(k + 1) \o ".bin"

\* lines 84-85: the hex dump, 32 characters a line
RECURSIVE HexLines(_)
HexLines(hex_str) ==
    IF Len(hex_str) = 0 THEN <<>>
    ELSE <<Slice(hex_str, 0, 32)>> \o HexLines(SubSeq(hex_str, 33, Len(hex_str)))

\* open(name, "wb").write(content): the file is created or replaced
WriteFile(dir, name, content) ==
    [n \in (DOMAIN dir) \cup {name} |-> IF n = name THEN content ELSE dir[n]]

\* lines 79-91: one iteration of the output loop
PersistBlock ==
    /\ pc = "persist"
    /\ idx < Len(unique_data_chunks)
    /\ LET block == unique_data_chunks[idx + 1]
       IN  /\ out' = out \o << <<"Block", idx + 1, Len(block), HexLines(Upper(BytesHex(block)))>>,
                               <<"Saved", BlockFilename(idx)>> >>
           /\ files' = WriteFile(files, BlockFilename(idx), block)
    /\ idx' = idx + 1
    /\ UNCHANGED <<pc, lines, li, header_hex, body_hex, body_bytes, wi,
                   unique_data_chunks, current_chunk, in_data, pass>>
    /\ UNCHANGED logVars
    /\ UNCHANGED runVars

\* line 91: the output loop is over and parse_dump returns; its blocks are the
\* latest ones
DumpReturn ==
    /\ pc = "persist"
    /\ ~(idx < Len(unique_data_chunks))
    /\ pc' = "returned_ok"
    /\ UNCHANGED <<files, out>>
    /\ UNCHANGED dumpVars
    /\ UNCHANGED logVars
    /\ latest' = unique_data_chunks
    /\ UNCHANGED run

----------------------------------------------------------------------------
(* parse_logs *)

\* str < str: code point order, a proper prefix first
RECURSIVE StrLess(_, _)
StrLess(a, b) ==
    IF Len(b) = 0 THEN FALSE
    ELSE IF Len(a) = 0 THEN TRUE
    ELSE IF CharAt(a, 1) = CharAt(b, 1) THEN StrLess(Tail(a), Tail(b))
    ELSE Ord[CharAt(a, 1)] < Ord[CharAt(b, 1)]

\* sorted(names)
RECURSIVE Sorted(_)
Sorted(S) ==
    IF S = {} THEN <<>>
    ELSE LET m == CHOOSE x \in S : \A y \in S : x = y \/ StrLess(x, y)
         IN  <<m>> \o Sorted(S \ {m})

\* line 11: glob("*.bin") over the data directory
Glob(dir) ==
    {n \in DOMAIN dir : /\ Len(n) >= 4
                        /\ SubSeq(n, Len(n) - 3, Len(n)) = ".bin"
                        /\ CharAt(n, 1) # "."}

\* lines 11-17: parse_logs starts once parse_dump is over
LogsStart ==
    /\ pc \in {"returned_ok", "returned", "raised"}
    /\ bin_files' = Glob(files)
    /\ IF bin_files' = {}
       THEN /\ out' = Append(out, <<"No .bin files found">>)
            /\ pc' = "logs_returned"
       ELSE /\ out' = Append(out, <<"Found log blocks", Cardinality(bin_files')>>)
            /\ pc' = "logs_loop"
    /\ fi' = 1
    /\ UNCHANGED <<files, data, i, samples>>
    /\ UNCHANGED dumpVars
    /\ UNCHANGED runVars

\* lines 19-36: the next file, in sorted order, is read
OpenFile ==
    /\ pc = "logs_loop"
    /\ fi <= Cardinality(bin_files)
    /\ LET filename == Sorted(bin_files)[fi]
       IN  /\ data' = files[filename]
           /\ out' = out \o << <<"Analyzing", filename>>,
                               <<"Header Hex", Upper(BytesHex(Slice(data', 0, 16)))>> >>
    /\ samples' = <<>>
    /\ i' = 0
    /\ pc' = "scan"
    /\ UNCHANGED <<files, bin_files, fi>>
    /\ UNCHANGED dumpVars
    /\ UNCHANGED runVars

\* ScanGuard asking for room for the marker only
ScanGuardMarkerOnly(pos, d) == pos < Len(d) - 1

\* line 37: the loop condition of the scan
ScanGuard(pos, d) == pos < Len(d) - RECORD

\* line 41
IsMarker(marker) == marker \in MARKERS

\* UnpackH reading the value most significant byte first (">H")
UnpackHBigEndian(b) == IF Len(b) # 2 THEN -1 ELSE 256 * b[1] + b[2]

\* line 45: struct.unpack("<H", b)[0]; -1 stands for struct.error (b is not 2 bytes)
UnpackH(b) == IF Len(b) # 2 THEN -1 ELSE b[1] + 256 * b[2]

\* lines 51-58
Sample(pos, marker, val) ==
    [offset |-> pos, marker |-> BytesHex(marker), raw_val |-> val,
     depth_m |-> [whole |-> val \div 100, hundredths |-> val % 100]]

\* ScanAdvance stepping over the marker only after a match
ScanAdvanceMarkerOnly(pos, matched) == IF matched THEN pos + 2 ELSE pos + 1

\* lines 59 and 61: the step of the scan
ScanAdvance(pos, matched) == IF matched THEN pos + RECORD ELSE pos + 1

\* lines 37-61: one iteration of the scan
ScanStep ==
    /\ pc = "scan"
    /\ ScanGuard(i, data)
    /\ LET marker == Slice(data, i, i + 2)
           val == UnpackH(Slice(data, i + 2, i + 4))
       IN  IF IsMarker(marker)
           THEN IF val = -1
                THEN /\ out' = Append(out, <<"Traceback", "struct.error">>)
                     /\ pc' = "raised_logs"
                     /\ UNCHANGED <<samples, i>>
                ELSE /\ samples' = Append(samples, Sample(i, marker, val))
                     /\ i' = ScanAdvance(i, TRUE)
                     /\ UNCHANGED <<pc, out>>
           ELSE /\ i' = ScanAdvance(i, FALSE)
                /\ UNCHANGED <<pc, out, samples>>
    /\ UNCHANGED <<files, bin_files, fi, data>>
    /\ UNCHANGED dumpVars
    /\ UNCHANGED runVars

\* lines 63-69: the scan is over, the samples are reported
ScanDone ==
    /\ pc = "scan"
    /\ ~ScanGuard(i, data)
    /\ out' = Append(out, <<"Found samples", Len(samples), Slice(samples, 0, 5)>>)
    /\ fi' = fi + 1
    /\ pc' = "logs_loop"
    /\ UNCHANGED <<files, bin_files, data, i, samples>>
    /\ UNCHANGED dumpVars
    /\ UNCHANGED runVars

\* line 19: no file is left and parse_logs returns
LogsReturn ==
    /\ pc = "logs_loop"
    /\ ~(fi <= Cardinality(bin_files))
    /\ pc' = "logs_returned"
    /\ UNCHANGED <<files, out>>
    /\ UNCHANGED logVars
    /\ UNCHANGED dumpVars
    /\ UNCHANGED runVars

----------------------------------------------------------------------------
(* Specifications *)

EmptyDir == [n \in {} |-> <<>>]

\* parse_dump over a capture, then parse_logs over the data directory
Init ==
    /\ lines \in SeqsUpTo(CandidateLines, MaxLines)
    /\ pc = "demux"
    /\ li = 1
    /\ header_hex = ""
    /\ body_hex = ""
    /\ body_bytes = <<>>
    /\ wi = 0
    /\ unique_data_chunks = <<>>
    /\ current_chunk = <<>>
    /\ in_data = FALSE
    /\ idx = 0
    /\ files = EmptyDir
    /\ out = << <<"Processing", Len(lines)>> >>
    /\ pass = 1
    /\ bin_files = {}
    /\ fi = 1
    /\ data = <<>>
    /\ i = 0
    /\ samples = <<>>
    /\ run = 1
    /\ latest = <<>>

Next ==
    \/ DemuxLine
    \/ ReportHeader
    \/ Materialize
    \/ SegmentWindow
    \/ Flush
    \/ PersistBlock
    \/ DumpReturn
    \/ LogsStart
    \/ OpenFile
    \/ ScanStep
    \/ ScanDone
    \/ LogsReturn

Spec == Init /\ [][Next]_vars

----------------------------------------------------------------------------
(* The segmenter on its own: lines 52-77 over a decoded body *)

\* the byte values of the bodies given to the segmenter
SegBytes == {0, 255}

\* the windows, and the short last windows, that longer bodies are made of
SegWindows ==
    { <<255, 255, 255, 255, 255, 255>>,
      <<0, 0, 0, 0, 0, 0>>,
      <<0, 255, 255, 255, 255, 255>>,
      <<255, 0, 0, 0, 0, 0>>,
      <<194, 0, 18, 52, 0, 0>> }

SegTails == { <<>>, <<255>>, <<255, 255, 255, 255, 255>>, <<0, 0>> }

RECURSIVE Concat(_)
Concat(ss) == IF ss = <<>> THEN <<>> ELSE Head(ss) \o Concat(Tail(ss))

InitSeg ==
    /\ \/ body_bytes \in SeqsUpTo(SegBytes, MaxBody)
       \/ \E ws \in SeqsUpTo(SegWindows, MaxWindows), t \in SegTails :
             body_bytes = Concat(ws) \o t
    /\ pc = "segment"
    /\ lines = <<>>
    /\ li = 1
    /\ header_hex = ""
    /\ body_hex = Upper(BytesHex(body_bytes))
    /\ wi = 0
    /\ unique_data_chunks = <<>>
    /\ current_chunk = <<>>
    /\ in_data = FALSE
    /\ idx = 0
    /\ files = EmptyDir
    /\ out = << <<"BODY", Len(body_bytes)>> >>
    /\ pass = 1
    /\ bin_files = {}
    /\ fi = 1
    /\ data = <<>>
    /\ i = 0
    /\ samples = <<>>
    /\ run = 1
    /\ latest = <<>>

\* lines 52-54 again: an emitted block is given to the segmenter as its whole input
Resegment ==
    /\ pc = "persist"
    /\ pass = 1
    /\ \E k \in 1..Len(unique_data_chunks) :
          /\ body_bytes' = unique_data_chunks[k]
          /\ body_hex' = Upper(BytesHex(unique_data_chunks[k]))
    /\ unique_data_chunks' = <<>>
    /\ current_chunk' = <<>>
    /\ in_data' = FALSE
    /\ wi' = 0
    /\ pass' = 2
    /\ pc' = "segment"
    /\ out' = << <<"BODY", Len(body_bytes')>> >>
    /\ UNCHANGED <<lines, li, header_hex, idx, files>>
    /\ UNCHANGED logVars
    /\ UNCHANGED runVars

NextSeg ==
    \/ SegmentWindow
    \/ Flush
    \/ Resegment

SpecSeg == InitSeg /\ [][NextSeg]_vars

----------------------------------------------------------------------------
(* The sample scan on its own: lines 35-63 over the content of one block file *)

\* the byte values of the blocks given to the scan
ScanBytes == {0, 18, 52, 194, 196}

\* the byte values of the longer, marker-dense blocks
DenseBytes == {0, 194, 195}

InitScan ==
    /\ \/ data \in SeqsUpTo(ScanBytes, MaxData)
       \/ data \in SeqsUpTo(DenseBytes, MaxDense)
    /\ pc = "scan"
    /\ files = WriteFile(EmptyDir, BlockFilename(0), data)
    /\ bin_files = {BlockFilename(0)}
    /\ fi = 1
    /\ i = 0
    /\ samples = <<>>
    /\ out = << <<"Found log blocks", 1>>, <<"Analyzing", BlockFilename(0)>>,
                <<"Header Hex", Upper(BytesHex(Slice(data, 0, 16)))>> >>
    /\ lines = <<>>
    /\ li = 1
    /\ header_hex = ""
    /\ body_hex = ""
    /\ body_bytes = <<>>
    /\ wi = 0
    /\ unique_data_chunks = <<>>
    /\ current_chunk = <<>>
    /\ in_data = FALSE
    /\ idx = 0
    /\ pass = 1
    /\ run = 1
    /\ latest = <<>>

NextScan ==
    \/ ScanStep
    \/ ScanDone
    \/ LogsReturn

SpecScan == InitScan /\ [][NextScan]_vars

\* parse_logs is sequential code that runs until it returns: a step that can be
\* taken is taken
SpecScanFair == SpecScan /\ WF_vars(NextScan)

----------------------------------------------------------------------------
(* Properties of the segmenter *)

\* the padding window, as bytes
FillerWindow == <<255, 255, 255, 255, 255, 255>>

\* the number of 6-aligned windows of b, a short last one included
NumWindows(b) == (Len(b) + 5) \div 6

\* the k-th window of b (1-based)
WindowOf(b, k) == SubSeq(b, 6 * (k - 1) + 1, Min(6 * k, Len(b)))

\* the maximal runs <<first, last>> of consecutive non-padding windows of b
RunsOf(b) ==
    {r \in (1..NumWindows(b)) \X (1..NumWindows(b)) :
        /\ r[1] <= r[2]
        /\ \A k \in r[1]..r[2] : WindowOf(b, k) # FillerWindow
        /\ r[1] = 1 \/ WindowOf(b, r[1] - 1) = FillerWindow
        /\ r[2] = NumWindows(b) \/ WindowOf(b, r[2] + 1) = FillerWindow}

\* the bytes of run r of b: its windows, in order
RunBytes(b, r) == SubSeq(b, 6 * (r[1] - 1) + 1, Min(6 * r[2], Len(b)))

\* the position (1-based) of run r among the runs of b, in input order
RunRank(b, r) == Cardinality({q \in RunsOf(b) : q[1] < r[1]}) + 1

\* the segmentation of body_bytes is over
SegmentationOver == pc = "persist"

\* C1: when segmentation is over, the blocks are exactly the maximal runs of
\* non-padding windows of the input, in input order, one block per run, each the
\* concatenation of the windows of its run, and none is empty.
C1_BlocksAreMaximalRuns ==
    SegmentationOver =>
        /\ Len(unique_data_chunks) = Cardinality(RunsOf(body_bytes))
        /\ \A r \in RunsOf(body_bytes) :
              unique_data_chunks[RunRank(body_bytes, r)] = RunBytes(body_bytes, r)
        /\ \A k \in 1..Len(unique_data_chunks) : unique_data_chunks[k] # <<>>

\* C1 witness: two blocks were cut around padding, the first of several windows
C1_Witness ==
    /\ SegmentationOver
    /\ pass = 1
    /\ Len(unique_data_chunks) = 2
    /\ Len(unique_data_chunks[1]) = 12
    /\ Len(body_bytes) % 6 # 0

\* six consecutive 0xFF bytes occur in b at an offset that is no multiple of 6
HasUnalignedFiller(b) ==
    \E o \in 1..Len(b) : o % 6 # 0 /\ o + 6 <= Len(b) /\ SubSeq(b, o + 1, o + 6) = FillerWindow

\* C2: a block fed back to the segmenter as its whole input comes out as exactly
\* one block, equal to it.
C2_ResegmentationIdempotent ==
    (SegmentationOver /\ pass = 2) => unique_data_chunks = <<body_bytes>>

\* C2 witness: the block fed back ends in a short window and holds six 0xFF bytes
\* across a window boundary
C2_Witness ==
    /\ SegmentationOver
    /\ pass = 2
    /\ Len(body_bytes) % 6 # 0
    /\ HasUnalignedFiller(body_bytes)

\* no window of b is the padding window
NoFillerWindow(b) == \A k \in 1..NumWindows(b) : WindowOf(b, k) # FillerWindow

\* C3, as stated: an input without padding windows, the empty input included,
\* yields exactly one block equal to the input.
C3_AsStated ==
    (SegmentationOver /\ NoFillerWindow(body_bytes)) => unique_data_chunks = <<body_bytes>>

\* C3, amended: a non-empty input without padding windows yields exactly one
\* block equal to the input.
C3_NoFillerOneBlock ==
    (SegmentationOver /\ NoFillerWindow(body_bytes) /\ body_bytes # <<>>)
        => unique_data_chunks = <<body_bytes>>

\* C3 witness: an input of three windows, the last short, none of them padding
C3_Witness ==
    /\ SegmentationOver
    /\ pass = 1
    /\ NoFillerWindow(body_bytes)
    /\ Len(body_bytes) = 13
    /\ unique_data_chunks = <<body_bytes>>

\* the body was decoded (BODY is printed right after the decoding)
DecodeOk == \E k \in 1..Len(out) : out[k][1] = "BODY"

\* b is made of padding windows only (the empty sequence included)
AllFillerWindows(b) == Len(b) % 6 = 0 /\ \A k \in 1..Len(b) : b[k] = 255

\* what has been printed holds record r
Printed(r) == \E k \in 1..Len(out) : out[k] = r

\* an exception has left the program
Raised == pc \in {"raised", "raised_logs"} \/ \E k \in 1..Len(out) : out[k][1] = "Traceback"

\* C4: a decoded body made of padding windows only (or empty) yields no block, at
\* no step of the segmentation and at its end; no error is reported, the count
\* printed is 0 and nothing is written.
C4_AllFillerNoBlocks ==
    (DecodeOk /\ AllFillerWindows(body_bytes)) =>
        /\ unique_data_chunks = <<>>
        /\ current_chunk = <<>>
        /\ ~Raised
        /\ ~Printed(<<"Error decoding hex data">>)
        /\ files = EmptyDir
        /\ pc # "segment" => Printed(<<"Found", 0>>)

\* C4 witness: parse_dump returned from a body of two padding windows
C4_Witness ==
    /\ pc = "returned_ok"
    /\ DecodeOk
    /\ Len(body_bytes) = 12
    /\ AllFillerWindows(body_bytes)
    /\ Printed(<<"Found", 0>>)

----------------------------------------------------------------------------
(* Properties of the sample scan *)

\* the scan of data is over
ScanOver == pc \in {"logs_loop", "logs_returned"}

\* the 2 bytes at offset o (0-based) of d are a marker
MarkerAt(d, o) ==
    /\ o + 2 <= Len(d)
    /\ d[o + 1] \in {194, 195, 196}
    /\ d[o + 2] = 0

\* C5: the offsets of the samples increase strictly and any two are at least 4
\* apart, so no marker inside a matched record is reported.
C5_SamplesDoNotOverlap ==
    \A a, b \in 1..Len(samples) :
        a < b => samples[a].offset + 4 <= samples[b].offset

\* C5 witness: two samples, and a marker in the value bytes of the first
C5_Witness ==
    /\ ScanOver
    /\ Len(samples) = 2
    /\ samples[1].offset = 0
    /\ MarkerAt(data, 2)

\* C6, as stated: a marker at an offset where a whole 4-byte record still fits
\* is reported; so the scan does not end at such an offset.
C6_AsStated ==
    (ScanOver /\ i + 4 <= Len(data) /\ MarkerAt(data, i)) =>
        \E k \in 1..Len(samples) : samples[k].offset = i

\* the text of each marker
MarkerText(b) ==
    IF b = 194 THEN "c200" ELSE IF b = 195 THEN "c300" ELSE IF b = 196 THEN "c400" ELSE "none"

\* C7: every sample sits on a marker of the block, carries the text of that
\* marker and the little-endian value of the 2 bytes after it; the block
\* C2 00 12 34 00 00 yields the one sample (0, c200, 13330).
C7_SampleFields ==
    /\ \A k \in 1..Len(samples) :
          LET s == samples[k]
          IN  /\ s.offset >= 0
              /\ s.offset + 4 <= Len(data)
              /\ MarkerAt(data, s.offset)
              /\ s.marker = MarkerText(data[s.offset + 1])
              /\ s.raw_val = data[s.offset + 3] + 256 * data[s.offset + 4]
              /\ s.raw_val \in 0..65535
    /\ (ScanOver /\ data = <<194, 0, 18, 52, 0, 0>>) =>
          /\ Len(samples) = 1
          /\ samples[1].offset = 0
          /\ samples[1].marker = "c200"
          /\ samples[1].raw_val = 13330

\* C7 witness: the scan of C2 00 12 34 00 00 is over
C7_Witness ==
    /\ ScanOver
    /\ data = <<194, 0, 18, 52, 0, 0>>
    /\ Len(samples) = 1

\* C8: the scan raises nothing; at a match the 2 value bytes lie inside the
\* block; every step of the scan moves the offset forward, by 4 on a match and
\* by 1 otherwise; the offset stays inside the block and the scan can always
\* take a step until it is over; parse_logs returns.
C8_ScanTerminatesWithoutError ==
    /\ <>(pc = "logs_returned")
    /\ [](pc # "raised_logs")
    /\ []((pc = "scan" /\ ScanGuard(i, data) /\ MarkerAt(data, i)) => i + 4 <= Len(data))
    /\ [](i <= Len(data))
    /\ []((pc = "scan") => ENABLED (ScanStep \/ ScanDone))
    /\ [][(pc = "scan" /\ pc' = "scan") =>
             /\ i' = (IF MarkerAt(data, i) THEN i + 4 ELSE i + 1)
             /\ Len(samples') = (IF MarkerAt(data, i) THEN Len(samples) + 1 ELSE Len(samples))]_vars
    /\ [][(pc = "scan" /\ pc' # "scan") => (pc' = "logs_loop" /\ i' = i)]_vars

\* C8 witness: the scan of a block with a marker in its last 2 bytes is over
C8_Witness ==
    /\ ScanOver
    /\ Len(data) = 5
    /\ MarkerAt(data, 3)
    /\ i = 1

----------------------------------------------------------------------------
(* Properties of the decoding of the body *)

HexChars ==
    {"0", "1", "2", "3", "4", "5", "6", "7", "8", "9",
     "a", "b", "c", "d", "e", "f", "A", "B", "C", "D", "E", "F"}

\* hex text that cannot be decoded: an odd length, or a character that is no hex digit
BadHex(s) == Len(s) % 2 = 1 \/ \E k \in 1..Len(s) : CharAt(s, k) \notin HexChars

\* the decoding of the body has been attempted
MaterializeOver == pc \notin {"demux", "unhex"}

\* C9: once the decoding of a body hex text of odd length or with a non-hex
\* character has been attempted, a decode failure has been reported and no block
\* count; no byte was decoded, the segmenter did not run, no block exists and no
\* file was written; the header was printed, with the header text as accumulated.
C9_DecodeFailureAborts ==
    (MaterializeOver /\ BadHex(body_hex)) =>
        /\ Printed(<<"Error decoding hex data">>) \/ Printed(<<"Traceback", "ValueError">>)
        /\ ~DecodeOk
        /\ \A k \in 1..Len(out) : out[k][1] \notin {"Found", "Block", "Saved"}
        /\ body_bytes = <<>>
        /\ unique_data_chunks = <<>>
        /\ current_chunk = <<>>
        /\ wi = 0
        /\ files = EmptyDir
        /\ out[2] = <<"HEADER", Len(header_hex) \div 2, header_hex>>

\* C9 witness: parse_dump returned on a body hex text of odd length, after a
\* header was accumulated
C9_Witness ==
    /\ pc = "returned"
    /\ Len(body_hex) % 2 = 1
    /\ header_hex = "CAFEBABE"
    /\ Printed(<<"Error decoding hex data">>)

\* the payloads of the frames of ls routed to the body, in order
RECURSIVE BodyPayloads(_)
BodyPayloads(ls) ==
    IF ls = <<>> THEN <<>>
    ELSE LET line == Strip(Head(ls))
         IN  (IF IsFrame(line) /\ Cmd(line) = "44" THEN <<Payload(line)>> ELSE <<>>)
             \o BodyPayloads(Tail(ls))

\* the bytes of each payload decoded on its own, concatenated
RECURSIVE DecodedEach(_)
DecodedEach(ps) ==
    IF ps = <<>> THEN <<>> ELSE Unhexlify(Head(ps)).bytes \o DecodedEach(Tail(ps))

\* C10, as stated: when the body is decoded, every body frame's payload decodes
\* on its own and the body is the concatenation of these decodings.
C10_AsStated ==
    DecodeOk =>
        /\ \A k \in 1..Len(BodyPayloads(lines)) : Unhexlify(BodyPayloads(lines)[k]).exc = "none"
        /\ body_bytes = DecodedEach(BodyPayloads(lines))

----------------------------------------------------------------------------
(* Properties of the demultiplexing of the frames *)

\* trimmed line t is a frame of command code c: 10 characters or more, the first two c
AcceptedAs(t, c) == Len(t) >= 10 /\ SubSeq(t, 1, 2) = c

\* the characters of t from index 6 (0-based) onward
FromIndex6(t) == SubSeq(t, 7, Len(t))

\* the payloads of the frames of command code c among ls, concatenated in order
RECURSIVE Accumulated(_, _)
Accumulated(ls, c) ==
    IF ls = <<>> THEN ""
    ELSE (IF AcceptedAs(Strip(Head(ls)), c) THEN FromIndex6(Strip(Head(ls))) ELSE "")
         \o Accumulated(Tail(ls), c)

\* a step of the loop over the lines
DemuxStep == pc = "demux" /\ li <= Len(lines) /\ li' = li + 1

\* C11: a line that is too short or of another command code changes neither
\* accumulator, a 42 frame appends its payload to the header only, a 44 frame to
\* the body only; after every prefix of the capture each accumulator is the
\* concatenation of the payloads of its frames so far; every line is scanned.
C11_DemuxFrameEffect ==
    /\ [](/\ header_hex = Accumulated(SubSeq(lines, 1, li - 1), "42")
          /\ body_hex = Accumulated(SubSeq(lines, 1, li - 1), "44"))
    /\ [](pc # "demux" => li = Len(lines) + 1)
    /\ [][DemuxStep =>
            LET t == Strip(lines[li])
            IN  /\ (~AcceptedAs(t, "42") /\ ~AcceptedAs(t, "44")) =>
                      (header_hex' = header_hex /\ body_hex' = body_hex)
                /\ AcceptedAs(t, "42") =>
                      (header_hex' = header_hex \o FromIndex6(t) /\ body_hex' = body_hex)
                /\ AcceptedAs(t, "44") =>
                      (body_hex' = body_hex \o FromIndex6(t) /\ header_hex' = header_hex)
                /\ lines' = lines /\ pc' = "demux"]_vars

\* C11 witness: a capture of a header frame, a frame of another code and a body
\* frame has been scanned to its end
C11_Witness ==
    /\ pc = "unhex"
    /\ Len(lines) = 3
    /\ header_hex = "CAFEBABE"
    /\ body_hex = "00c4"
    /\ \E k \in 1..3 : Slice(lines[k], 0, 2) = "41"

\* C12, as stated: a 9-character line is dropped, and a 10-character line is
\* accepted with an empty payload, so that it changes no accumulator.
C12_AsStated ==
    [][DemuxStep =>
          LET t == Strip(lines[li])
          IN  /\ Len(t) = 9 => (header_hex' = header_hex /\ body_hex' = body_hex)
              /\ Len(t) = 10 => (header_hex' = header_hex /\ body_hex' = body_hex)]_vars

\* C12, amended: a 9-character line is dropped; a 10-character line of code 42
\* or 44 is accepted and appends its last 4 characters to its accumulator.
C12_TenCharacterFrame ==
    [][DemuxStep =>
          LET t == Strip(lines[li])
          IN  /\ Len(t) = 9 => (header_hex' = header_hex /\ body_hex' = body_hex)
              /\ (Len(t) = 10 /\ SubSeq(t, 1, 2) = "44") =>
                    /\ body_hex' = body_hex \o SubSeq(t, 7, 10)
                    /\ Len(body_hex') = Len(body_hex) + 4
                    /\ header_hex' = header_hex
              /\ (Len(t) = 10 /\ SubSeq(t, 1, 2) = "42") =>
                    /\ header_hex' = header_hex \o SubSeq(t, 7, 10)
                    /\ Len(header_hex') = Len(header_hex) + 4
                    /\ body_hex' = body_hex]_vars

\* C12 witness: a 9-character line, then a 10-character line have been scanned
C12_Witness ==
    /\ pc = "demux"
    /\ li = 3
    /\ Len(Strip(lines[1])) = 9
    /\ Len(Strip(lines[2])) = 10
    /\ body_hex = "00c4"

----------------------------------------------------------------------------
(* Properties of the steps of the segmenter *)

\* the window the loop is at
CurrentWindow == WindowOf(body_bytes, (wi \div 6) + 1)

\* a step of the window loop
WindowStep == pc = "segment" /\ wi < Len(body_bytes) /\ pc' = "segment" /\ wi' = wi + 6

\* the step that ends the window loop
EndOfInputStep == pc = "segment" /\ pc' = "persist"

\* C13: a padding window met while accumulating emits the open block, empties
\* it and leaves the segmenter idle; met while idle it changes nothing; any other
\* window is appended to the open block, which emits nothing and leaves the
\* segmenter accumulating; at the end of the input the open block is emitted
\* exactly when the segmenter is accumulating.
C13_SegmenterSteps ==
    /\ [][WindowStep =>
            /\ (CurrentWindow = FillerWindow /\ in_data) =>
                  /\ unique_data_chunks' = Append(unique_data_chunks, current_chunk)
                  /\ current_chunk' = <<>>
                  /\ in_data' = FALSE
            /\ (CurrentWindow = FillerWindow /\ ~in_data) =>
                  /\ unique_data_chunks' = unique_data_chunks
                  /\ current_chunk' = current_chunk
                  /\ in_data' = FALSE
            /\ CurrentWindow # FillerWindow =>
                  /\ unique_data_chunks' = unique_data_chunks
                  /\ current_chunk' = current_chunk \o CurrentWindow
                  /\ in_data' = TRUE]_vars
    /\ [][EndOfInputStep =>
            /\ wi >= Len(body_bytes)
            /\ unique_data_chunks' = IF in_data
                                     THEN Append(unique_data_chunks, current_chunk)
                                     ELSE unique_data_chunks]_vars

\* C13 witness: the second window, padding, has just closed the first block and
\* the input goes on
C13_Witness ==
    /\ pc = "segment"
    /\ wi = 12
    /\ wi < Len(body_bytes)
    /\ Len(unique_data_chunks) = 1
    /\ ~in_data
    /\ current_chunk = <<>>

\* the last block
LastBlock == unique_data_chunks[Len(unique_data_chunks)]

\* s ends with t
EndsWith(s, t) == Len(t) <= Len(s) /\ SubSeq(s, Len(s) - Len(t) + 1, Len(s)) = t

\* C14: when the input length is no multiple of 6, the short last window is the
\* tail of the last block, whatever its bytes: after a non-padding window it
\* follows that window in the block, after a padding window or as the only
\* window it is a block of its own.
C14_ShortLastWindow ==
    (SegmentationOver /\ Len(body_bytes) % 6 # 0) =>
        LET n == NumWindows(body_bytes)
            short == WindowOf(body_bytes, n)
        IN  /\ Len(unique_data_chunks) >= 1
            /\ EndsWith(LastBlock, short)
            /\ IF n >= 2 /\ WindowOf(body_bytes, n - 1) # FillerWindow
               THEN EndsWith(LastBlock, WindowOf(body_bytes, n - 1) \o short)
               ELSE LastBlock = short

\* C14 witness: a padding window followed by five 0xFF bytes
C14_Witness ==
    /\ SegmentationOver
    /\ pass = 1
    /\ body_bytes = <<255, 255, 255, 255, 255, 255, 255, 255, 255, 255, 255>>
    /\ unique_data_chunks = << <<255, 255, 255, 255, 255>> >>

\* C15: all along the window loop in_data is true exactly when the open block is
\* not empty, so the flush at the end of the input emits one block exactly when
\* in_data is true, and never an empty one.
C15_FlagMatchesOpenBlock ==
    /\ [](pc = "segment" => (in_data <=> current_chunk # <<>>))
    /\ [][EndOfInputStep =>
            /\ Len(unique_data_chunks') = Len(unique_data_chunks) + (IF in_data THEN 1 ELSE 0)
            /\ \A k \in 1..Len(unique_data_chunks') : unique_data_chunks'[k] # <<>>]_vars

\* C15 witness: a block is open after an earlier one was closed
C15_Witness ==
    /\ pc = "segment"
    /\ in_data
    /\ current_chunk # <<>>
    /\ Len(unique_data_chunks) = 1

\* the number of padding windows of b
NumFillers(b) == Cardinality({k \in 1..NumWindows(b) : WindowOf(b, k) = FillerWindow})

RECURSIVE SumLen(_)
SumLen(ss) == IF ss = <<>> THEN 0 ELSE Len(Head(ss)) + SumLen(Tail(ss))

\* the bytes rest of the blocks put back around the padding windows of b, from
\* window k on
RECURSIVE Rebuild(_, _, _)
Rebuild(b, k, rest) ==
    IF k > NumWindows(b) THEN rest
    ELSE IF WindowOf(b, k) = FillerWindow THEN FillerWindow \o Rebuild(b, k + 1, rest)
    ELSE SubSeq(rest, 1, Min(Len(WindowOf(b, k)), Len(rest)))
         \o Rebuild(b, k + 1, SubSeq(rest, Len(WindowOf(b, k)) + 1, Len(rest)))

\* C16: the lengths of the blocks and 6 bytes for each padding window add up to
\* the length of the input, and the bytes of the blocks put back around the
\* padding windows are the input.
C16_NoByteLostOrDuplicated ==
    SegmentationOver =>
        /\ SumLen(unique_data_chunks) + 6 * NumFillers(body_bytes) = Len(body_bytes)
        /\ Rebuild(body_bytes, 1, Concat(unique_data_chunks)) = body_bytes

\* C16 witness: two blocks and two padding windows
C16_Witness ==
    /\ SegmentationOver
    /\ pass = 1
    /\ Len(unique_data_chunks) = 2
    /\ NumFillers(body_bytes) = 2
    /\ Len(unique_data_chunks[1]) = 6

----------------------------------------------------------------------------
(* Several parse_dump runs over one data directory, then parse_logs *)

\* the lines of the captures of these runs
RunLines ==
    { "44CCCCC20012340000FFFFFFFFFFFF\n",    \* body frame, a record, zeros and padding
      "44CCCCC3003412\n",                    \* body frame, one 4-byte record
      "44DDDDFFFFFFF\n" }                    \* body frame, 7 payload characters

InitRuns ==
    /\ lines \in SeqsUpTo(RunLines, MaxRunLines)
    /\ pc = "demux"
    /\ li = 1
    /\ header_hex = ""
    /\ body_hex = ""
    /\ body_bytes = <<>>
    /\ wi = 0
    /\ unique_data_chunks = <<>>
    /\ current_chunk = <<>>
    /\ in_data = FALSE
    /\ idx = 0
    /\ files = EmptyDir
    /\ out = << <<"Processing", Len(lines)>> >>
    /\ pass = 1
    /\ bin_files = {}
    /\ fi = 1
    /\ data = <<>>
    /\ i = 0
    /\ samples = <<>>
    /\ run = 1
    /\ latest = <<>>

\* lines 9-16 again: parse_dump is run on another capture; its locals are fresh,
\* the data directory is as the earlier runs left it
Rerun ==
    /\ pc \in {"returned_ok", "returned", "raised"}
    /\ run < MaxRuns
    /\ lines' \in SeqsUpTo(RunLines, MaxRunLines)
    /\ li' = 1
    /\ header_hex' = ""
    /\ body_hex' = ""
    /\ body_bytes' = <<>>
    /\ wi' = 0
    /\ unique_data_chunks' = <<>>
    /\ current_chunk' = <<>>
    /\ in_data' = FALSE
    /\ idx' = 0
    /\ out' = << <<"Processing", Len(lines')>> >>
    /\ pc' = "demux"
    /\ run' = run + 1
    /\ UNCHANGED <<files, pass, latest>>
    /\ UNCHANGED logVars

NextRuns ==
    \/ DemuxLine
    \/ ReportHeader
    \/ Materialize
    \/ SegmentWindow
    \/ Flush
    \/ PersistBlock
    \/ DumpReturn
    \/ Rerun
    \/ LogsStart
    \/ OpenFile
    \/ ScanStep
    \/ ScanDone
    \/ LogsReturn

SpecRuns == InitRuns /\ [][NextRuns]_vars

\* no parse_dump run is under way
NoDumpRunning ==
    pc \in {"returned_ok", "returned", "raised", "logs_loop", "scan", "logs_returned",
            "raised_logs"}

\* the block files of blocks bs: one per block, numbered from 1
ArtifactNames(bs) == {BlockFilename(k - 1) : k \in 1..Len(bs)}

\* C17, as stated: between and after the parse_dump runs the block files of the
\* data directory are exactly the blocks of the most recent run that returned
\* normally, and parse_logs analyses only these.
C17_AsStated ==
    NoDumpRunning =>
        /\ Glob(files) = ArtifactNames(latest)
        /\ \A k \in 1..Len(latest) : files[BlockFilename(k - 1)] = latest[k]
        /\ pc = "scan" => \E k \in 1..Len(latest) : data = latest[k]

----------------------------------------------------------------------------
(* parse_dump over a capture of many blocks, then parse_logs *)

\* the lines of these captures: each makes one block and the padding after it
OrderLines ==
    { "44CCCCC20012340000FFFFFFFFFFFF\n",
      "44CCCCC3003412FFFFFFFFFFFFFFFF\n" }

InitOrder ==
    /\ lines \in SeqsUpTo(OrderLines, MaxOrderLines)
    /\ pc = "demux"
    /\ li = 1
    /\ header_hex = ""
    /\ body_hex = ""
    /\ body_bytes = <<>>
    /\ wi = 0
    /\ unique_data_chunks = <<>>
    /\ current_chunk = <<>>
    /\ in_data = FALSE
    /\ idx = 0
    /\ files = EmptyDir
    /\ out = << <<"Processing", Len(lines)>> >>
    /\ pass = 1
    /\ bin_files = {}
    /\ fi = 1
    /\ data = <<>>
    /\ i = 0
    /\ samples = <<>>
    /\ run = 1
    /\ latest = <<>>

SpecOrder == InitOrder /\ [][Next]_vars

\* the place in what was printed of the analysis of the file of block k (1-based);
\* 0 when it has not been analysed
AnalysedAt(k) ==
    IF Printed(<<"Analyzing", BlockFilename(k - 1)>>)
    THEN CHOOSE n \in 1..Len(out) : out[n] = <<"Analyzing", BlockFilename(k - 1)>>
    ELSE 0

\* C18, as stated: parse_logs analyses the block files in the order of the blocks:
\* when block k is analysed, every block j < k has been analysed before it.
C18_AsStated ==
    \A j, k \in 1..Len(unique_data_chunks) :
        (j < k /\ AnalysedAt(k) > 0) => (AnalysedAt(j) > 0 /\ AnalysedAt(j) < AnalysedAt(k))

====
